---- MODULE Spec2Model ----
(***************************************************************************)
(* Model of streamlit_app.py: the roster / rankings CSV pipeline that      *)
(* builds the per-player table (Player, Cap Hit, Position, Cap %, Grade,   *)
(* Weight, ROI) and the dashboard branch that consumes it.                 *)
(*                                                                         *)
(* Representation.                                                         *)
(*  - A string is a sequence of tokens.  Money strings and rank strings    *)
(*    are sequences of single characters; names, labels and headers are    *)
(*    sequences of words and single blanks (" ").  Substring tests of the  *)
(*    code ("Rank" in s, "/" in s, "cap" in c.lower()) are token tests.    *)
(*  - An empty CSV field is read by pandas as NaN, so a string cell is     *)
(*    never empty: NaN is the empty sequence.  None, the result of         *)
(*    clean_name on a discarded value, is the empty sequence too; the code *)
(*    only ever tests it with `if name:`, which treats None and "" alike.  *)
(*  - A float is an exact rational [n, d], d > 0, in lowest terms.  The    *)
(*    IEEE results of a division by zero are [1,0] (inf), [-1,0] (-inf)    *)
(*    and [0,0] (NaN).                                                     *)
(***************************************************************************)
EXTENDS Integers, Sequences, FiniteSets, TLC

(* ------------------------------ bounds --------------------------------- *)

\* rows of an uploaded roster file
MaxRows == 2

\* rows of an uploaded rankings file
MaxPerfRows == 1

(* ------------------------------ configuration -------------------------- *)

SALARY_CAP_2026 == 303500000

Categories == {"QB", "WR", "OL", "DL", "DB", "TE", "LB", "RB", "ST"}

\* POS_DATA[cat].groups : the raw labels of a category, in dict order
POS_ORDER == <<"QB", "WR", "OL", "DL", "DB", "TE", "LB", "RB", "ST">>

POS_GROUPS(cat) ==
    CASE cat = "QB" -> {"QB"}
      [] cat = "WR" -> {"WR"}
      [] cat = "OL" -> {"LT", "LG", "C", "RG", "RT", "OL", "G", "T"}
      [] cat = "DL" -> {"ED", "IDL", "DT", "DE", "DL", "LDE", "RDE", "NT"}
      [] cat = "DB" -> {"CB", "S", "FS", "SS", "DB", "LCB", "RCB"}
      [] cat = "TE" -> {"TE"}
      [] cat = "LB" -> {"LB", "ILB", "OLB", "WLB", "LILB", "RILB", "SLB"}
      [] cat = "RB" -> {"RB", "FB", "HB"}
      [] cat = "ST" -> {"K", "P", "LS"}

(* ------------------------------ rationals ------------------------------ *)

Abs(x) == IF x < 0 THEN -x ELSE x

RECURSIVE GCD(_, _)
GCD(a, b) == IF b = 0 THEN a ELSE GCD(b, a % b)

Sign(x) == IF x > 0 THEN 1 ELSE IF x < 0 THEN -1 ELSE 0

\* n/d in lowest terms with a positive denominator; d = 0 gives inf, -inf or NaN
Frac(n, d) ==
    IF d = 0 THEN [n |-> Sign(n), d |-> 0]
    ELSE LET g == GCD(Abs(n), Abs(d))
             s == IF d < 0 THEN -1 ELSE 1
         IN [n |-> s * (n \div g), d |-> s * (d \div g)]

Finite(x) == x.d # 0

FInt(k) == [n |-> k, d |-> 1]

\* an operand that is inf or NaN stays as it is (none arises before the ROI division)
FAdd(x, y) ==
    IF ~Finite(x) THEN x ELSE IF ~Finite(y) THEN y
    ELSE LET g == GCD(x.d, y.d)
         IN Frac(x.n * (y.d \div g) + y.n * (x.d \div g), (x.d \div g) * y.d)

FSub(x, y) == FAdd(x, [n |-> -y.n, d |-> y.d])

\* cross-cancel before multiplying, so that the products stay small
FMul(x, y) ==
    IF ~Finite(x) THEN x ELSE IF ~Finite(y) THEN y
    ELSE LET a == Frac(x.n, y.d)
             b == Frac(y.n, x.d)
         IN Frac(a.n * b.n, a.d * b.d)

\* float division as numpy does it: x/0 is inf, -inf or NaN, never an exception
FDiv(x, y) ==
    IF y.n = 0 THEN [n |-> Sign(x.n), d |-> 0]
    ELSE FMul(x, Frac(y.d, y.n))

FLe(x, y) == x.n * y.d <= y.n * x.d

FMax0(x) == IF x.n < 0 THEN FInt(0) ELSE x

(* ------------------------------ strings -------------------------------- *)

NaN == << >>

None == << >>

isna(v) == v = NaN

Contains(s, t) == \E i \in 1..Len(s) : s[i] = t

Remove(s, T) == SelectSeq(s, LAMBDA t : t \notin T)

Whitespace == {" "}

RECURSIVE LStrip(_)
LStrip(s) == IF s # << >> /\ Head(s) \in Whitespace THEN LStrip(Tail(s)) ELSE s

RECURSIVE RStrip(_)
RStrip(s) ==
    IF s # << >> /\ s[Len(s)] \in Whitespace THEN RStrip(SubSeq(s, 1, Len(s) - 1)) ELSE s

Strip(s) == RStrip(LStrip(s))

\* str.upper() on the tokens of the label alphabet
Upper(t) ==
    CASE t = "qb"  -> "QB"
      [] t = "te"  -> "TE"
      [] t = "Doe" -> "DOE"
      [] t = "Roe" -> "ROE"
      [] t = "Poe" -> "POE"
      [] t = "Jr." -> "JR."
      [] OTHER     -> t

\* str.lower() on the tokens of the header alphabet
Lower(t) ==
    CASE t = "Cap"    -> "cap"
      [] t = "CAP"    -> "cap"
      [] t = "Hit"    -> "hit"
      [] t = "NUMBER" -> "number"
      [] t = "Number" -> "number"
      [] t = "Player" -> "player"
      [] t = "Pos"    -> "pos"
      [] t = "Name"   -> "name"
      [] t = "Salary" -> "salary"
      [] t = "Backup" -> "backup"
      [] OTHER        -> t

upper(s) == [i \in 1..Len(s) |-> Upper(s[i])]

lower(s) == [i \in 1..Len(s) |-> Lower(s[i])]

Digits == <<"0", "1", "2", "3", "4", "5", "6", "7", "8", "9">>

IsDigit(c) == \E i \in 1..10 : Digits[i] = c

DigitVal(c) == (CHOOSE i \in 1..10 : Digits[i] = c) - 1

RECURSIVE DigitsVal(_, _)
DigitsVal(s, acc) ==
    IF s = << >> THEN acc ELSE DigitsVal(Tail(s), 10 * acc + DigitVal(Head(s)))

\* The numeric literal grammar shared by float() and int() on the modelled
\* alphabet: surrounding blanks, an optional sign, one or more digits.
ParseNumber(str) ==
    LET s    == Strip(str)
        neg  == s # << >> /\ Head(s) = "-"
        body == IF s # << >> /\ Head(s) \in {"-", "+"} THEN Tail(s) ELSE s
        ok   == body # << >> /\ \A i \in 1..Len(body) : IsDigit(body[i])
    IN [ok |-> ok, val |-> IF ok THEN (IF neg THEN -1 ELSE 1) * DigitsVal(body, 0) ELSE 0]

(* ------------------------------ helper functions ----------------------- *)

get_roi_category(pos_label) ==
    IF isna(pos_label) THEN "ST"
    ELSE LET lab  == Strip(upper(pos_label))
             hits == {i \in 1..Len(POS_ORDER) :
                        Len(lab) = 1 /\ lab[1] \in POS_GROUPS(POS_ORDER[i])}
         IN IF hits = {} THEN "ST"
            ELSE POS_ORDER[CHOOSE i \in hits : \A j \in hits : i <= j]

RoleWords == {"Starter", "2nd", "3rd", "4th"}

StatusTags == {"Q", "IR", "PUP", "SUSP", "NFI", "Jr.", "Sr."}

clean_name(name) ==
    IF isna(name) \/ name = <<"-">> \/ Contains(name, "Rank") \/ Contains(name, "Pos")
    THEN None
    ELSE LET a == Remove(name, RoleWords)
             k == Len(a)
             b == IF k >= 2 /\ a[k - 1] \in Whitespace /\ a[k] \in StatusTags
                  THEN SubSeq(a, 1, k - 2) ELSE a
         IN Strip(b)

clean_currency(value) ==
    IF isna(value) THEN 0
    ELSE LET p == ParseNumber(Remove(value, {"$", ",", " "}))
         IN IF p.ok THEN p.val ELSE 0

(* ------------------------------ uploaded files ------------------------- *)

\* st.sidebar.file_uploader returns None until a file is chosen
NoFile == [uploaded |-> FALSE, columns |-> << >>, rows |-> << >>]

SeqsUpTo(S, n) == UNION {[1..k -> S] : k \in 0..n}

\* The contract rows a roster file is made of: the player cell, the cap cell,
\* the depth-chart label and one depth-chart slot.
RosterRows ==
    { [player |-> <<"Doe", " ", "Q">>,
       cap    |-> <<"$", "1", ",", "0", "0", "0", ",", "0", "0", "0">>,
       label  |-> <<"qb">>,
       slot   |-> NaN],
      [player |-> <<"Doe">>,
       cap    |-> <<"2", "0", "0", "0", "0", "0", "0">>,
       label  |-> <<"LT">>,
       slot   |-> <<"Doe", " ", "Starter">>],
      [player |-> <<"Roe">>,
       cap    |-> <<"-", "3", "0", "3", "5", "0", "0">>,
       label  |-> <<"XX">>,
       slot   |-> NaN],
      [player |-> <<"Roe", " ", "Jr.">>,
       cap    |-> <<"$", "4", "0", "0", ",", "0", "0", "0", ",", "0", "0", "0">>,
       label  |-> NaN,
       slot   |-> <<"Roe">>],
      [player |-> <<"Poe">>,
       cap    |-> <<"a", "b", "c">>,
       label  |-> <<" ", "te">>,
       slot   |-> <<"-">>],
      [player |-> <<"-">>,
       cap    |-> <<"$", " ", "5">>,
       label  |-> <<"K">>,
       slot   |-> <<"Doe", " ", "IR">>] }

Filler(k) == [i \in 1..k |-> NaN]

FillerCols(k) == [i \in 1..k |-> <<"Unnamed:", " ", "x">>]

\* The file layouts: the header row, and where a contract row's cells go.
\*   simple   : label, player, cap, slot       (label in column 0, slots 1:5)
\*   nocap    : as simple, no header with "cap" in it
\*   noplayer : no header with "player" in it; names lead the file
\*   wide     : 17 columns, label in column 12, slots in columns 13:17
Layouts == {"simple", "nocap", "noplayer", "wide"}

LayoutColumns(l) ==
    CASE l = "simple"   -> << <<"Pos">>, <<"Player">>, <<"Cap", " ", "Hit">>, <<"Backup">> >>
      [] l = "nocap"    -> << <<"Pos">>, <<"Player">>, <<"Salary">>, <<"Backup">> >>
      [] l = "noplayer" -> << <<"Name">>, <<"CAP", " ", "NUMBER">>, <<"Pos">>, <<"Backup">> >>
      [] l = "wide"     -> << <<"Player">>, <<"Cap", " ", "Number">> >> \o FillerCols(10)
                             \o << <<"Pos">> >> \o FillerCols(4)

LayoutRow(l, r) ==
    CASE l \in {"simple", "nocap"} -> << r.label, r.player, r.cap, r.slot >>
      [] l = "noplayer"            -> << r.player, r.cap, r.label, r.slot >>
      [] l = "wide"                -> << r.player, r.cap >> \o Filler(10)
                                        \o << r.label, r.slot >> \o Filler(3)

RosterFiles ==
    { [uploaded |-> TRUE,
       columns  |-> LayoutColumns(l),
       rows     |-> [i \in 1..Len(rs) |-> LayoutRow(l, rs[i])]] :
      l \in Layouts, rs \in SeqsUpTo(RosterRows, MaxRows) }

\* The rows a rankings file is made of: the name cell and the rank cell.
PerfRows ==
    { [name |-> <<"Doe", " ", "Q">>, rank |-> <<"8", "/", "4", "0">>],
      [name |-> <<"Doe">>,           rank |-> <<"1", "/", "1">>],
      [name |-> <<"Roe">>,           rank |-> <<"4", "0", "/", "4", "0">>],
      [name |-> <<"Roe">>,           rank |-> <<"-", "1", "/", "4", "0">>],
      [name |-> <<"Doe">>,           rank |-> <<"5", "/", "0">>],
      [name |-> <<"Poe">>,           rank |-> <<"4", "5", "/", "4", "0">>],
      [name |-> <<"Doe">>,           rank |-> <<"8">>],
      [name |-> <<"Roe">>,           rank |-> <<"x", "/", "4", "0">>],
      [name |-> <<"Poe">>,           rank |-> NaN] }

\* pandas names the headerless columns of a rankings export "Unnamed: k"
Unnamed(k) == <<"Unnamed: ", Digits[k + 1]>>

PerfLayouts == {"export", "named"}

PerfColumns(l) ==
    CASE l = "export" -> << Unnamed(0), Unnamed(1), Unnamed(2), Unnamed(3) >>
      [] l = "named"  -> << <<"Player">>, <<"Rank">> >>

PerfRow(l, r) ==
    CASE l = "export" -> << NaN, NaN, r.name, r.rank >>
      [] l = "named"  -> << r.name, r.rank >>

PerfFiles ==
    { [uploaded |-> TRUE,
       columns  |-> PerfColumns(l),
       rows     |-> [i \in 1..Len(rs) |-> PerfRow(l, rs[i])]] :
      l \in PerfLayouts, rs \in SeqsUpTo(PerfRows, MaxPerfRows) }

(* ------------------------------ data frame access ---------------------- *)

\* the least column index of a set of hits, 0 when there is none
FirstOf(hits) == IF hits = {} THEN 0 ELSE CHOOSE i \in hits : \A j \in hits : i <= j

HasCap(c) == Contains(lower(c), "cap")

HasPlayer(c) == Contains(lower(c), "player")

\* next(c for c in columns if "cap" in c.lower()), as an index; 0 when none
FirstCapCol(columns) == FirstOf({i \in 1..Len(columns) : HasCap(columns[i])})

\* next(c for c in columns if "player" in c.lower()), as an index; 0 when none
FirstPlayerCol(columns) == FirstOf({i \in 1..Len(columns) : HasPlayer(columns[i])})

\* row.get(col): the cell, or None when the frame has no such column
RowGet(columns, row, header) ==
    LET i == FirstOf({j \in 1..Len(columns) : columns[j] = header})
    IN IF i = 0 THEN None ELSE row[i]

\* dict[key] = value
dict_set(m, k, v) == [x \in (DOMAIN m) \cup {k} |-> IF x = k THEN v ELSE m[x]]

EmptyDict == [x \in {} |-> 0]

\* Series.map(dict) on one value: the mapped value, or the NaN marker
dict_get(m, k, default) == IF k \in DOMAIN m THEN m[k] ELSE default

(* ------------------------------ 1. roster processing ------------------- *)

\* column index of cap_col; 0 stands for the default "Cap Number", a header that
\* has "cap" in it and so is absent whenever the default is taken
cap_col(df) == FirstCapCol(df.columns)

\* column index of p_col: the first "player" column, else the first column
p_col(df) ==
    LET i == FirstPlayerCol(df.columns) IN IF i = 0 THEN 1 ELSE i

\* fin_list, row by row; raised once row[cap_col] is read with no such column
RECURSIVE fin_list(_, _, _)
fin_list(df, idx, acc) ==
    IF idx > Len(df.rows) THEN [raised |-> FALSE, list |-> acc]
    ELSE LET row  == df.rows[idx]
             name == clean_name(row[p_col(df)])
         IN IF name = None THEN fin_list(df, idx + 1, acc)
            ELSE IF cap_col(df) = 0 THEN [raised |-> TRUE, list |-> << >>]
            ELSE fin_list(df, idx + 1,
                          Append(acc, [Player |-> name,
                                       CapHit |-> clean_currency(row[cap_col(df)])]))

\* a dedup that keeps the last row of every name (keep='last')
drop_duplicates_last(lst) ==
    LET last == SelectSeq([i \in 1..Len(lst) |-> i],
                          LAMBDA i : \A j \in (i + 1)..Len(lst) : lst[j].Player # lst[i].Player)
    IN [k \in 1..Len(last) |-> lst[last[k]]]

\* DataFrame.drop_duplicates('Player'): the first row of every name is kept
drop_duplicates(lst) ==
    LET first == SelectSeq([i \in 1..Len(lst) |-> i],
                           LAMBDA i : \A j \in 1..(i - 1) : lst[j].Player # lst[i].Player)
    IN [k \in 1..Len(first) |-> lst[first[k]]]

\* 0-based column positions of the depth chart (iloc)
label_col(df) == IF Len(df.columns) > 12 THEN 12 ELSE 0

depth_cols(df) ==
    LET n  == Len(df.columns)
        lo == IF n > 16 THEN 13 ELSE 1
        hi == IF n > 16 THEN 17 ELSE 5
    IN {c \in lo..(hi - 1) : c < n}

\* the assignments pos_map[p_clean] = category, in the order the loops make them
RECURSIVE slot_assignments(_, _, _, _)
slot_assignments(df, idx, c, acc) ==
    IF c >= Len(df.columns) THEN acc
    ELSE LET cell == df.rows[idx][c + 1]
             key  == clean_name(cell)
             cat  == get_roi_category(df.rows[idx][label_col(df) + 1])
         IN slot_assignments(df, idx, c + 1,
               IF c \in depth_cols(df) /\ ~isna(cell) /\ key # None
               THEN Append(acc, <<key, cat>>) ELSE acc)

RECURSIVE pos_assignments(_, _, _)
pos_assignments(df, idx, acc) ==
    IF idx > Len(df.rows) THEN acc
    ELSE pos_assignments(df, idx + 1,
            IF isna(df.rows[idx][label_col(df) + 1]) THEN acc
            ELSE slot_assignments(df, idx, 0, acc))

\* a dict built by assignments in order: a later one replaces an earlier one
RECURSIVE dict_of(_, _)
dict_of(assigns, m) ==
    IF assigns = << >> THEN m
    ELSE dict_of(Tail(assigns), dict_set(m, Head(assigns)[1], Head(assigns)[2]))

pos_map(df) == dict_of(pos_assignments(df, 1, << >>), EmptyDict)

\* (Cap Hit / SALARY_CAP_2026) * 100
CapPct(cap) == FMul(Frac(cap, SALARY_CAP_2026), FInt(100))

\* Lines 51-74: the table, or raised when an exception leaves the script.
\* pd.DataFrame([]) has no 'Player' column: on an empty fin_list KeyError is
\* raised by drop_duplicates('Player') or, where pandas returns an empty frame
\* early, by player_data['Player'] at line 73.
roster_table(df) ==
    LET fl == fin_list(df, 1, << >>)
    IN IF fl.raised \/ fl.list = << >> THEN [raised |-> TRUE, table |-> << >>]
       ELSE LET pd == drop_duplicates(fl.list)
                pm == pos_map(df)
            IN [raised |-> FALSE,
                table  |-> [i \in 1..Len(pd) |->
                              [Player   |-> pd[i].Player,
                               CapHit   |-> pd[i].CapHit,
                               Position |-> dict_get(pm, pd[i].Player, "NaN"),
                               CapPct   |-> CapPct(pd[i].CapHit)]]]

(* ------------------------------ 2. performance processing -------------- *)

\* str(value): NaN prints as "nan"
str(v) == IF isna(v) THEN <<"n", "a", "n">> ELSE v

\* rank_raw.split('/')[k], k = 0 or 1, of a string that holds a "/"
RECURSIVE UpToSlash(_)
UpToSlash(s) ==
    IF s = << >> \/ Head(s) = "/" THEN << >> ELSE <<Head(s)>> \o UpToSlash(Tail(s))

RECURSIVE AfterSlash(_)
AfterSlash(s) == IF Head(s) = "/" THEN Tail(s) ELSE AfterSlash(Tail(s))

SplitPart(s, k) == IF k = 0 THEN UpToSlash(s) ELSE UpToSlash(AfterSlash(s))

\* the score without its clamp at 0
ScoreUnclamped(rank_val, total_val) ==
    FSub(FInt(100), FMul(Frac(rank_val, total_val), FInt(100)))

\* max(0, 100 - (rank_val / total_val * 100))
Score(rank_val, total_val) ==
    FMax0(FSub(FInt(100), FMul(Frac(rank_val, total_val), FInt(100))))

\* a row loop that also takes a plain integer rank, scored max(0, 100 - rank)
perf_row_plain(df, row) ==
    LET p_name   == clean_name(RowGet(df.columns, row, Unnamed(2)))
        rank_raw == str(RowGet(df.columns, row, Unnamed(3)))
        plain    == ParseNumber(rank_raw)
        rank     == ParseNumber(SplitPart(rank_raw, 0))
        total    == ParseNumber(SplitPart(rank_raw, 1))
    IN IF p_name # None /\ ~Contains(rank_raw, "/") /\ plain.ok
       THEN [made |-> TRUE, name |-> p_name,
             score |-> FMax0(FInt(100 - plain.val)), raw |-> rank_raw]
       ELSE IF p_name # None /\ Contains(rank_raw, "/")
               /\ rank.ok /\ total.ok /\ total.val # 0
       THEN [made |-> TRUE, name |-> p_name,
             score |-> Score(rank.val, total.val), raw |-> rank_raw]
       ELSE [made |-> FALSE, name |-> None, score |-> FInt(0), raw |-> << >>]

\* One row of the loop: the assignment it makes to perf_map and display_rank_map,
\* or made = FALSE when the row is passed over (no name, no "/", or an exception
\* of int() or of the division swallowed by the bare except).
perf_row(df, row) ==
    LET p_name   == clean_name(RowGet(df.columns, row, Unnamed(2)))
        rank_raw == str(RowGet(df.columns, row, Unnamed(3)))
        rank     == ParseNumber(SplitPart(rank_raw, 0))
        total    == ParseNumber(SplitPart(rank_raw, 1))
    IN IF p_name # None /\ Contains(rank_raw, "/")
          /\ rank.ok /\ total.ok /\ total.val # 0
       THEN [made |-> TRUE, name |-> p_name,
             score |-> Score(rank.val, total.val), raw |-> rank_raw]
       ELSE [made |-> FALSE, name |-> None, score |-> FInt(0), raw |-> << >>]

RECURSIVE perf_assignments(_, _, _)
perf_assignments(df, idx, acc) ==
    IF idx > Len(df.rows) THEN acc
    ELSE LET a == perf_row(df, df.rows[idx])
         IN perf_assignments(df, idx + 1,
               IF a.made THEN Append(acc, <<a.name, [score |-> a.score, raw |-> a.raw]>>)
               ELSE acc)

perf_map(df) == dict_of(perf_assignments(df, 1, << >>), EmptyDict)

\* lines 92-93: Grade = map(perf_map).fillna(50), Actual Rank = map(...).fillna("N/A")
graded_with(table, pm) ==
    [i \in 1..Len(table) |->
       [Player     |-> table[i].Player,
        CapHit     |-> table[i].CapHit,
        Position   |-> table[i].Position,
        CapPct     |-> table[i].CapPct,
        Grade      |-> IF table[i].Player \in DOMAIN pm
                       THEN pm[table[i].Player].score ELSE FInt(50),
        ActualRank |-> IF table[i].Player \in DOMAIN pm
                       THEN pm[table[i].Player].raw ELSE <<"N/A">>]]

\* lines 96-97: no rankings file
graded_default(table) ==
    [i \in 1..Len(table) |->
       [Player     |-> table[i].Player,
        CapHit     |-> table[i].CapHit,
        Position   |-> table[i].Position,
        CapPct     |-> table[i].CapPct,
        Grade      |-> FInt(70),
        ActualRank |-> <<"N/A">>]]

(* ------------------------------ 3. calculations ------------------------ *)

\* POS_DATA[cat].weight, in hundredths
POS_WEIGHT(cat) ==
    CASE cat = "QB" -> 100
      [] cat = "WR" -> 95
      [] cat = "OL" -> 90
      [] cat = "DL" -> 90
      [] cat = "DB" -> 85
      [] cat = "TE" -> 75
      [] cat = "LB" -> 70
      [] cat = "RB" -> 65
      [] cat = "ST" -> 50

\* POS_DATA.get(x, {'weight': 0.5})['weight']
Weight(x) == IF x \in Categories THEN Frac(POS_WEIGHT(x), 100) ELSE Frac(50, 100)

\* (Grade * Weight) / (Cap % + 0.1)
ROI(grade, weight, cap_pct) == FDiv(FMul(grade, weight), FAdd(cap_pct, Frac(1, 10)))

scored(table) ==
    [i \in 1..Len(table) |->
       [Player     |-> table[i].Player,
        CapHit     |-> table[i].CapHit,
        Position   |-> table[i].Position,
        CapPct     |-> table[i].CapPct,
        Grade      |-> table[i].Grade,
        ActualRank |-> table[i].ActualRank,
        Weight     |-> Weight(table[i].Position),
        ROI        |-> ROI(table[i].Grade, Weight(table[i].Position), table[i].CapPct)]]

(* ------------------------------ the script ----------------------------- *)

VARIABLES
    roster_file,   \* the file in uploader 1, or NoFile
    perf_file,     \* the file in uploader 2, or NoFile
    player_data,   \* the table, a sequence of rows; << >> is the empty DataFrame
    pc,            \* where the script run stands
    view           \* what the run showed: "dashboard", "info" or "exception"

vars == <<roster_file, perf_file, player_data, pc, view>>

\* Streamlit runs the script top to bottom when the page opens and after every
\* change of a widget; line 48 starts each run with an empty table.
Init ==
    /\ roster_file = NoFile
    /\ perf_file = NoFile
    /\ player_data = << >>
    /\ pc = "roster"
    /\ view = "running"

\* line 45: the user puts a file into the empty uploader 1; the script reruns
UploadRoster ==
    /\ pc = "idle"
    /\ ~roster_file.uploaded
    /\ \E f \in RosterFiles : roster_file' = f
    /\ player_data' = << >>
    /\ pc' = "roster"
    /\ view' = "running"
    /\ UNCHANGED perf_file

\* line 46: the user puts a file into the empty uploader 2; the script reruns
UploadPerf ==
    /\ pc = "idle"
    /\ ~perf_file.uploaded
    /\ \E f \in PerfFiles : perf_file' = f
    /\ player_data' = << >>
    /\ pc' = "roster"
    /\ view' = "running"
    /\ UNCHANGED roster_file

\* the user removes both files; the script reruns
ClearFiles ==
    /\ pc = "idle"
    /\ roster_file.uploaded \/ perf_file.uploaded
    /\ roster_file' = NoFile
    /\ perf_file' = NoFile
    /\ player_data' = << >>
    /\ pc' = "roster"
    /\ view' = "running"

\* lines 51-74; an exception ends the run, Streamlit shows the traceback
ProcessRoster ==
    /\ pc = "roster"
    /\ IF ~roster_file.uploaded
       THEN /\ pc' = "perf"
            /\ UNCHANGED <<player_data, view>>
       ELSE LET res == roster_table(roster_file)
            IN IF res.raised
               THEN /\ pc' = "idle"
                    /\ view' = "exception"
                    /\ UNCHANGED player_data
               ELSE /\ player_data' = res.table
                    /\ pc' = "perf"
                    /\ UNCHANGED view
    /\ UNCHANGED <<roster_file, perf_file>>

\* lines 77-97
ProcessPerformance ==
    /\ pc = "perf"
    /\ player_data' =
         IF perf_file.uploaded /\ player_data # << >>
         THEN graded_with(player_data, perf_map(perf_file))
         ELSE IF player_data # << >> THEN graded_default(player_data)
         ELSE player_data
    /\ pc' = "calc"
    /\ UNCHANGED <<roster_file, perf_file, view>>

\* lines 100-102
Calculations ==
    /\ pc = "calc"
    /\ player_data' = IF player_data # << >> THEN scored(player_data) ELSE player_data
    /\ pc' = "dash"
    /\ UNCHANGED <<roster_file, perf_file, view>>

\* lines 107-181: the dashboard over the table, or the 'no data' notice
Dashboard ==
    /\ pc = "dash"
    /\ view' = IF player_data # << >> THEN "dashboard" ELSE "info"
    /\ pc' = "idle"
    /\ UNCHANGED <<roster_file, perf_file, player_data>>

Next ==
    \/ UploadRoster
    \/ UploadPerf
    \/ ClearFiles
    \/ ProcessRoster
    \/ ProcessPerformance
    \/ Calculations
    \/ Dashboard

Spec == Init /\ [][Next]_vars

(* ------------------------------ properties ----------------------------- *)

Entities == 1..Len(player_data)

\* the table holds the roster columns / the Grade column / the ROI column
Loaded == player_data # << >>

Graded == Loaded /\ pc \in {"calc", "dash", "idle"}

Scored == Loaded /\ pc \in {"dash", "idle"}

PerfRowIdx == 1..Len(perf_file.rows)

PerfName(k) == clean_name(RowGet(perf_file.columns, perf_file.rows[k], Unnamed(2)))

PerfRank(k) == str(RowGet(perf_file.columns, perf_file.rows[k], Unnamed(3)))

RankVal(k) == ParseNumber(SplitPart(PerfRank(k), 0))

PoolVal(k) == ParseNumber(SplitPart(PerfRank(k), 1))

\* row k holds "rank/pool_size", two integers, with a pool size one can divide by
Compound(k) ==
    /\ Contains(PerfRank(k), "/")
    /\ RankVal(k).ok /\ PoolVal(k).ok /\ PoolVal(k).val # 0

\* row k is the row that decides the grade of `name`: the last compound row for it
Decides(k, name) ==
    /\ PerfName(k) = name
    /\ Compound(k)
    /\ \A j \in PerfRowIdx : j > k => ~(PerfName(j) = name /\ Compound(j))

\* g = max(0, 100 - (r/t)*100), by cross-multiplication
GradeIs(g, r, t) ==
    IF (t - r) * t < 0 THEN g.n = 0
    ELSE g.d * 100 * (t - r) = g.n * t

\* C1: after any roster load every entity has exactly one category, a member of
\* the nine-category set; an entity matched by no depth-chart row gets ST.
C1_EveryEntityHasCategory ==
    \A i \in Entities : player_data[i].Position \in Categories

AllNamesDiscarded(df) ==
    \A k \in 1..Len(df.rows) : clean_name(df.rows[k][p_col(df)]) = None

\* C2: a run over a roster file with no cap column, with no player column, or
\* whose names are all discarded ends in the 'no data' state with an empty
\* table: no exception leaves the script and no table is populated.
C2_MalformedRosterGivesNoData ==
    (/\ pc = "idle"
     /\ roster_file.uploaded
     /\ \/ cap_col(roster_file) = 0
        \/ FirstPlayerCol(roster_file.columns) = 0
        \/ AllNamesDiscarded(roster_file))
    => (view = "info" /\ player_data = << >>)

\* C3 as stated: the grade recorded for a name by a compound row
\* "rank/pool_size" is max(0, 100 - (rank/pool_size)*100), such that "8/40"
\* gives 80, "1/1" gives 100 and "40/40" gives 0.
C3_RankStringScoringAsStated ==
    (Graded /\ perf_file.uploaded) =>
       \A i \in Entities : \A k \in PerfRowIdx :
          Decides(k, player_data[i].Player) =>
             /\ GradeIs(player_data[i].Grade, RankVal(k).val, PoolVal(k).val)
             /\ PerfRank(k) = <<"8", "/", "4", "0">> => player_data[i].Grade = FInt(80)
             /\ PerfRank(k) = <<"1", "/", "1">> => player_data[i].Grade = FInt(100)
             /\ PerfRank(k) = <<"4", "0", "/", "4", "0">> => player_data[i].Grade = FInt(0)

\* C3 amended: the grade recorded for a name by a compound row "rank/pool_size"
\* is max(0, 100 - (rank/pool_size)*100): "8/40" gives 80, "40/40" gives 0 and
\* "1/1" gives 0 as well.  (A row with pool size 0 records nothing; of several
\* compound rows for one name the last is the one recorded.)
C3_RankStringScoring ==
    (Graded /\ perf_file.uploaded) =>
       \A i \in Entities : \A k \in PerfRowIdx :
          Decides(k, player_data[i].Player) =>
             /\ GradeIs(player_data[i].Grade, RankVal(k).val, PoolVal(k).val)
             /\ PerfRank(k) = <<"8", "/", "4", "0">> => player_data[i].Grade = FInt(80)
             /\ PerfRank(k) = <<"1", "/", "1">> => player_data[i].Grade = FInt(0)
             /\ PerfRank(k) = <<"4", "0", "/", "4", "0">> => player_data[i].Grade = FInt(0)

\* a table entity graded 0 by the compound row "1/1"
C3_Witness ==
    /\ Graded /\ perf_file.uploaded
    /\ \E i \in Entities : \E k \in PerfRowIdx :
          /\ Decides(k, player_data[i].Player)
          /\ PerfRank(k) = <<"1", "/", "1">>
          /\ player_data[i].Grade = FInt(0)

\* row k names `name` and its rank field is a plain integer
PlainRow(k, name) ==
    /\ PerfName(k) = name
    /\ ~Contains(PerfRank(k), "/")
    /\ ParseNumber(PerfRank(k)).ok

C5_GradeInRange ==
    Graded =>
       \A i \in Entities :
          /\ player_data[i].Grade.n >= 0
          /\ player_data[i].Grade.n <= 100 * player_data[i].Grade.d

\* C6: with no rankings file, or with one that scores no row, every entity has
\* the placeholder grade 70; an entity absent from a usable map has it too.
C6_OnePlaceholderGrade ==
    Graded =>
       \A i \in Entities :
          (\/ ~perf_file.uploaded
           \/ \A k \in PerfRowIdx : ~Decides(k, player_data[i].Player))
          => player_data[i].Grade = FInt(70)

\* the static weight of the entity's category, ST for an entity with none
CategoryWeight(pos) ==
    Frac(POS_WEIGHT(IF pos \in Categories THEN pos ELSE "ST"), 100)

\* C7: after a load with a non-empty table every entity has an roi, a number
\* equal to (grade * category_weight) / (cap_fraction_pct + 0.1).
C7_RoiTotal ==
    Scored =>
       \A i \in Entities :
          LET e == player_data[i] IN
          /\ Finite(e.ROI)
          /\ FMul(e.ROI, FAdd(e.CapPct, Frac(1, 10)))
               = FMul(e.Grade, CategoryWeight(e.Position))

\* the category of the first depth-chart occurrence of `name` in row scan order
FirstCategory(name) ==
    LET as == pos_assignments(roster_file, 1, << >>)
        k  == CHOOSE k \in 1..Len(as) :
                 as[k][1] = name /\ \A j \in 1..(k - 1) : as[j][1] # name
    IN as[k][2]

\* C8: a player named under several depth-chart labels keeps the category of the
\* first occurrence in row scan order.
C8_FirstCategoryWins ==
    Loaded =>
       \A i \in Entities :
          player_data[i].Position \in Categories
          => player_data[i].Position = FirstCategory(player_data[i].Player)

\* the contract rows of the roster file whose name cleans to `name`
RowsNamed(name) ==
    {k \in 1..Len(roster_file.rows) :
        clean_name(roster_file.rows[k][p_col(roster_file)]) = name}

\* C9: the cleaned names of the table are pairwise distinct, and an entity
\* carries the cap amount of the first contract row that cleans to its name.
C9_DedupFirstWins ==
    Loaded =>
       /\ \A i, j \in Entities :
             player_data[i].Player = player_data[j].Player => i = j
       /\ \A i \in Entities :
             LET rs    == RowsNamed(player_data[i].Player)
                 first == CHOOSE k \in rs : \A j \in rs : k <= j
             IN /\ rs # {}
                /\ player_data[i].CapHit =
                     clean_currency(roster_file.rows[first][cap_col(roster_file)])

\* a table entity that two contract rows with different raw names and
\* different cap amounts clean to
C9_Witness ==
    /\ Loaded
    /\ \E i \in Entities :
          LET rs == RowsNamed(player_data[i].Player)
          IN \E a, b \in rs :
                /\ a < b
                /\ roster_file.rows[a][p_col(roster_file)]
                     # roster_file.rows[b][p_col(roster_file)]
                /\ clean_currency(roster_file.rows[a][cap_col(roster_file)])
                     # clean_currency(roster_file.rows[b][cap_col(roster_file)])

\* C10: every entity's cap amount is non-negative and its cap fraction lies in
\* [0, 1] (Cap % in [0, 100]).
C10_CapInRange ==
    Loaded =>
       \A i \in Entities :
          /\ player_data[i].CapHit >= 0
          /\ player_data[i].CapPct.n >= 0
          /\ player_data[i].CapPct.n <= 100 * player_data[i].CapPct.d

====
